---- MODULE Spec2Model ----
(***************************************************************************)
(* 1inch Fusion SDK example scripts (EVM and Solana).                      *)
(*                                                                         *)
(* Every script is a one-shot process: module top level, main(), and the   *)
(* entry point that maps main()'s settlement to an exit status.  The chain *)
(* RPC, the Fusion API and the WebSocket feed are the environment: every   *)
(* call draws its response (or its failure) from a small set.              *)
(*                                                                         *)
(* The four EVM scripts that import createProvider exist in two builds:    *)
(* "ethers" (the import as written) and "viem" (the commented import).     *)
(* Both builds are run side by side against the same responses, so that    *)
(* their call sequences can be compared.                                   *)
(***************************************************************************)
EXTENDS Integers, Sequences, FiniteSets, TLC

VARIABLES
    script,     \* which example script this process runs
    env,        \* process.env: API_KEY, PRIVATE_KEY, NETWORK_ID
    nodeMode,   \* Node's --unhandled-rejections mode: "throw" or "warn"
    walletBalance, \* the wallet's source-token balance on chain
    run         \* per build: the state of the running script

vars == <<script, env, nodeMode, walletBalance, run>>

----------------------------------------------------------------------------
(* Scripts *)

ProviderScripts == {"erc20", "permit2", "native", "evm_ws"}
EvmPollScripts  == {"erc20", "permit2", "native"}
QuickScripts    == {"evm_quick", "sol_quick"}
SolanaScripts   == {"sol_poll", "sol_ws", "sol_quick", "sol_cancel"}
WsScripts       == {"evm_ws", "sol_ws"}
PollScripts     == EvmPollScripts \cup {"sol_poll"}
Scripts         == ProviderScripts \cup {"evm_quick"} \cup SolanaScripts

Builds == {"ethers", "viem"}

\* The builds of a script: only the scripts importing createProvider have a
\* viem build.
BuildsOf(s) == IF s \in ProviderScripts THEN Builds ELSE {"ethers"}

----------------------------------------------------------------------------
(* Strings are tuples of characters, so that startsWith and includes are   *)
(* computed.  An unset environment variable is Undefined.                  *)

Undefined == <<"undefined">>

Falsy(v) == v = Undefined \/ v = <<>>

StartsWith(s, prefix) ==
    /\ Len(s) >= Len(prefix)
    /\ SubSeq(s, 1, Len(prefix)) = prefix

Includes(s, sub) ==
    \E i \in 1..(Len(s) - Len(sub) + 1) : SubSeq(s, i, i + Len(sub) - 1) = sub

MsgExpired == <<"O","r","d","e","r"," ","e","x","p","i","r","e","d"," ","w","i","t","h","o","u","t"," ","b","e","i","n","g"," ","f","i","l","l","e","d">>
MsgCancelled == <<"O","r","d","e","r"," ","w","a","s"," ","c","a","n","c","e","l","l","e","d">>
MsgOrderTimeout == <<"O","r","d","e","r"," ","t","i","m","e","o","u","t"," ","a","f","t","e","r"," ","3","0","0","s">>
MsgNetworkError == <<"N","e","t","w","o","r","k"," ","E","r","r","o","r">>
MsgOrderNotFound == <<"O","r","d","e","r"," ","n","o","t"," ","f","o","u","n","d">>
MsgInvalidated == <<"O","r","d","e","r"," ","w","a","s"," ","i","n","v","a","l","i","d","a","t","e","d"," ","o","r"," ","c","a","n","c","e","l","l","e","d">>
NeedleOrder == <<"O","r","d","e","r">>

\* A thrown value: kind names the throw site, isError is `instanceof Error`.
Err(kind, msg) == [kind |-> kind, isError |-> TRUE, message |-> msg]
NoError == [kind |-> "none", isError |-> FALSE, message |-> <<>>]

\* What an external call (RPC, API) can reject with.
ApiErrors ==
    { [kind |-> "api", isError |-> TRUE,  message |-> MsgNetworkError],
      [kind |-> "api", isError |-> TRUE,  message |-> MsgOrderNotFound],
      [kind |-> "api", isError |-> FALSE, message |-> MsgOrderNotFound] }

NetworkFailure == [kind |-> "api", isError |-> TRUE, message |-> MsgNetworkError]

----------------------------------------------------------------------------
(* Configuration *)

NETWORK_MAP ==
    (<<"1">> :> "ETHEREUM") @@ (<<"8","4","5","3">> :> "COINBASE") @@
    (<<"5","6">> :> "BINANCE") @@ (<<"1","3","7">> :> "POLYGON") @@
    (<<"4","2","1","6","1">> :> "ARBITRUM") @@ (<<"1","0">> :> "OPTIMISM") @@
    (<<"4","3","1","1","4">> :> "AVALANCHE") @@ (<<"1","0","0">> :> "GNOSIS") @@
    (<<"2","5","0">> :> "FANTOM") @@ (<<"3","2","4">> :> "ZKSYNC") @@
    (<<"5","9","1","4","4">> :> "LINEA") @@ (<<"1","4","6">> :> "SONIC") @@
    (<<"1","3","0">> :> "UNICHAIN")

VIEM_CHAIN_MAP ==
    (<<"1">> :> "mainnet") @@ (<<"8","4","5","3">> :> "base") @@
    (<<"5","6">> :> "bsc") @@ (<<"1","3","7">> :> "polygon") @@
    (<<"4","2","1","6","1">> :> "arbitrum") @@ (<<"1","0">> :> "optimism") @@
    (<<"4","3","1","1","4">> :> "avalanche") @@ (<<"1","0","0">> :> "gnosis") @@
    (<<"2","5","0">> :> "fantom") @@ (<<"3","2","4">> :> "zkSync") @@
    (<<"5","9","1","4","4">> :> "linea") @@ (<<"1","4","6">> :> "sonic")

\* A chain id no map knows.
UnknownNetworkId == <<"9","9","9">>

\* NETWORK_MAP and VIEM_CHAIN_MAP are object literals: `map[key]` also finds
\* the properties they inherit from Object.prototype, all of them truthy.
ObjectPrototypeKeys ==
    { <<"c","o","n","s","t","r","u","c","t","o","r">>,
      <<"t","o","S","t","r","i","n","g">>,
      <<"t","o","L","o","c","a","l","e","S","t","r","i","n","g">>,
      <<"v","a","l","u","e","O","f">>,
      <<"h","a","s","O","w","n","P","r","o","p","e","r","t","y">>,
      <<"i","s","P","r","o","t","o","t","y","p","e","O","f">>,
      <<"p","r","o","p","e","r","t","y","I","s","E","n","u","m","e","r","a","b","l","e">>,
      <<"_","_","p","r","o","t","o","_","_">>,
      <<"_","_","d","e","f","i","n","e","G","e","t","t","e","r","_","_">>,
      <<"_","_","d","e","f","i","n","e","S","e","t","t","e","r","_","_">>,
      <<"_","_","l","o","o","k","u","p","G","e","t","t","e","r","_","_">>,
      <<"_","_","l","o","o","k","u","p","S","e","t","t","e","r","_","_">> }

\* What such a lookup yields: a function or object of Object.prototype, no
\* NetworkEnum and no viem Chain.
InheritedProperty == "Object.prototype"

\* An EVM_NETWORK_ID that names an inherited property.
InheritedNetworkId == <<"c","o","n","s","t","r","u","c","t","o","r">>

ApiKeys == {Undefined, <<>>, <<"k","e","y">>}

EvmPrivateKeys == {Undefined, <<>>, <<"0","x","a","1">>, <<"a","1">>}

\* Solana secret keys, by what the two decoders make of them: the base58
\* text of a 64-byte keypair, of a 32-byte seed and of 7 bytes; the padded
\* base64 text of a 64-byte keypair, which is no base58; and an unpadded
\* base64 text of a 64-byte keypair written in base58 characters only.
SolKey64 == <<"K","6","4">>
SolKey32 == <<"K","3","2">>
SolKeyBad == <<"K","7">>
SolKeyBase64 == <<"B","6","4","=">>
SolKeyPlain64 == <<"B","6","4">>
SolPrivateKeys == {Undefined, <<>>, SolKey64, SolKey32, SolKeyBad, SolKeyBase64, SolKeyPlain64}

\* bs58.decode throws on a character outside the alphabet.
Bs58Throws(pk) == pk = SolKeyBase64

\* bs58.decode(pk).length when it does not throw: 86 base58 characters are
\* 63 bytes.
Bs58Decode(pk) ==
    CASE pk = SolKey64      -> 64
      [] pk = SolKey32      -> 32
      [] pk = SolKeyPlain64 -> 63
      [] OTHER              -> 7

\* Buffer.from(pk, "base64").length: never throws; the 88 and 44
\* characters of the base58 keys are 66 and 33 bytes.
Base64Decode(pk) ==
    CASE pk = SolKey64      -> 66
      [] pk = SolKey32      -> 33
      [] pk = SolKeyBase64  -> 64
      [] pk = SolKeyPlain64 -> 64
      [] OTHER              -> 7

NetworkIds == {Undefined, <<>>, UnknownNetworkId, InheritedNetworkId} \cup DOMAIN NETWORK_MAP

NoConfig == [apiKey |-> Undefined, privateKey |-> Undefined, networkId |-> Undefined]

\* A variant of loadConfig that validates API_KEY only.
LoadConfigEvmError_ApiKeyOnly(e) ==
    IF Falsy(e.API_KEY) THEN Err("MissingApiKey", <<>>) ELSE NoError

\* evm/shared/types.ts loadConfig: the thrown error, or NoError.
LoadConfigEvmError(e) ==
    IF Falsy(e.API_KEY) THEN Err("MissingApiKey", <<>>)
    ELSE IF Falsy(e.PRIVATE_KEY) THEN Err("MissingPrivateKey", <<>>)
    ELSE IF ~StartsWith(e.PRIVATE_KEY, <<"0","x">>) THEN Err("PrivateKeyNo0x", <<>>)
    ELSE NoError

LoadConfigEvm(e) ==
    [apiKey |-> e.API_KEY, privateKey |-> e.PRIVATE_KEY,
     networkId |-> IF Falsy(e.NETWORK_ID) THEN <<"1">> ELSE e.NETWORK_ID]

\* solana/utils/connection.ts loadConfig
LoadConfigSolError(e) ==
    IF Falsy(e.API_KEY) THEN Err("MissingApiKey", <<>>)
    ELSE IF Falsy(e.PRIVATE_KEY) THEN Err("MissingPrivateKey", <<>>)
    ELSE NoError

LoadConfigSol(e) ==
    [apiKey |-> e.API_KEY, privateKey |-> e.PRIVATE_KEY, networkId |-> Undefined]

\* The quick-start scripts' module-level check.
QuickEnvMissing(e) == Falsy(e.API_KEY) \/ Falsy(e.PRIVATE_KEY)

\* A variant of the viem chain lookup with Sonic (146) missing from the map.
ViemChainKnown_NoSonic(networkId) ==
    networkId \in (DOMAIN VIEM_CHAIN_MAP) \ {<<"1","4","6">>}

\* `map[key]` when nothing has the property.
NoProperty == "undefined"

\* `map[key]`: the own property, else the inherited one, else undefined.
Lookup(map, key) ==
    IF key \in DOMAIN map THEN map[key]
    ELSE IF key \in ObjectPrototypeKeys THEN InheritedProperty
    ELSE NoProperty

\* providers/viem.ts createProvider: the chain lookup, `if (!chain) throw`.
ViemChainKnown(networkId) == Lookup(VIEM_CHAIN_MAP, networkId) # NoProperty

\* providers/ethers.ts createProvider never looks the chain up.
EthersChainKnown(networkId) == TRUE

CreateProviderOk(build, networkId) ==
    IF build = "viem" THEN ViemChainKnown(networkId) ELSE EthersChainKnown(networkId)

\* createFusionSDK: the network lookup, `if (!network) throw`.
FusionNetworkKnown(networkId) == Lookup(NETWORK_MAP, networkId) # NoProperty

----------------------------------------------------------------------------
(* The provider adapters, providers/ethers.ts and providers/viem.ts: what  *)
(* each method of the adapter asks of the chain.  A request is a read of   *)
(* the native balance, a call or a signed transaction of an ERC-20         *)
(* function with its arguments in order, or the wait for a receipt.        *)

Request(kind, fn, args) == [kind |-> kind, fn |-> fn, args |-> args]

\* ethers: jsonRpcProvider.getBalance, a Contract over jsonRpcProvider for
\* the reads and over the wallet for approve, jsonRpcProvider.waitForTransaction.
EthersRequest(method) ==
    CASE method = "getNativeBalance"   -> Request("getBalance", "", <<"address">>)
      [] method = "getTokenBalance"    ->
            Request("read", "balanceOf", <<"tokenAddress", "ownerAddress">>)
      [] method = "getTokenAllowance"  ->
            Request("read", "allowance", <<"tokenAddress", "ownerAddress", "spenderAddress">>)
      [] method = "approveToken"       ->
            Request("write", "approve", <<"tokenAddress", "spenderAddress", "amount">>)
      [] method = "waitForTransaction" -> Request("receipt", "", <<"txHash">>)

\* A variant of the viem adapter whose allowance read names the spender
\* before the owner.
ViemRequest_SwapsOwnerAndSpender(method) ==
    IF method = "getTokenAllowance"
    THEN Request("read", "allowance", <<"tokenAddress", "spenderAddress", "ownerAddress">>)
    ELSE EthersRequest(method)

\* viem: publicClient.getBalance, publicClient.readContract,
\* walletClient.writeContract, publicClient.waitForTransactionReceipt.
ViemRequest(method) ==
    CASE method = "getNativeBalance"   -> Request("getBalance", "", <<"address">>)
      [] method = "getTokenBalance"    ->
            Request("read", "balanceOf", <<"tokenAddress", "ownerAddress">>)
      [] method = "getTokenAllowance"  ->
            Request("read", "allowance", <<"tokenAddress", "ownerAddress", "spenderAddress">>)
      [] method = "approveToken"       ->
            Request("write", "approve", <<"tokenAddress", "spenderAddress", "amount">>)
      [] method = "waitForTransaction" -> Request("receipt", "", <<"txHash">>)

\* The answer to a request: a value, or a rejection.
Answer(fail, v) == [ok |-> ~fail, value |-> v]

\* The chain answers the same request the same way, whichever library sent
\* it: the two builds of a script can be answered differently only where
\* their adapters ask different things.
SameResponses(s, method, a, a2) ==
    (s \notin ProviderScripts \/ ViemRequest(method) = EthersRequest(method)) => a2 = a

\* What the awaited call of the script settles with: each adapter method
\* returns the promise of its library call (approveToken the hash of the
\* transaction sent), so the answer to the build's own request, a for the
\* ethers build and a2 for the viem build; a script without adapter makes
\* the call itself.
Awaited(s, build, a, a2) ==
    IF s \in ProviderScripts /\ build = "viem" THEN a2 ELSE a

----------------------------------------------------------------------------
(* Amounts.  Native ETH amounts are in gwei (10^15 wei = 10^6 gwei), SOL   *)
(* amounts in lamports, token amounts in the token's smallest unit.        *)

Erc20Amount      == 1000000
Permit2Amount    == 10000000
NativeAmountGwei == 1000000
GasBufferGwei    == 5000000
EvmWsAmount      == 1000000
EvmQuickAmount   == 1000000
SolAmount        == 100000000
SolFees          == 10000000
SolDemoFees      == 20000000

Amount(s) ==
    CASE s = "erc20"     -> Erc20Amount
      [] s = "permit2"   -> Permit2Amount
      [] s = "native"    -> NativeAmountGwei
      [] s = "evm_ws"    -> EvmWsAmount
      [] s = "evm_quick" -> EvmQuickAmount
      [] OTHER           -> SolAmount

\* The fixed buffer a script adds to the swap amount in its balance check.
Buffer(s) ==
    CASE s = "native"               -> GasBufferGwei
      [] s \in {"sol_poll", "sol_ws"} -> SolFees
      [] s = "sol_cancel"           -> SolDemoFees
      [] OTHER                      -> 0

\* totalNeeded of the script's balance check.
TotalNeeded(s) == Amount(s) + Buffer(s)

\* `balance < totalNeeded`
InsufficientBalance(s, balance) == balance < TotalNeeded(s)

\* `allowance < amountBigInt`
NeedsApproval_Never(s, allowance) == FALSE

NeedsApproval(s, allowance) == allowance < Amount(s)

BalanceReads(s) == {0, Amount(s), TotalNeeded(s) - 1, TotalNeeded(s)}

\* What the allowance read can answer: nothing approved yet, just short of
\* the amount, the amount.
AllowanceReads(s) == {0, Amount(s) - 1, Amount(s)}

Spender(s) == IF s = "permit2" THEN "PERMIT2" ELSE "AGGREGATION_ROUTER_V6"

ApproveAmount(s) == IF s = "permit2" THEN "MAX_UINT256" ELSE "amount"

----------------------------------------------------------------------------
(* Timing, in milliseconds. *)

EvmOrderTimeout == 300000
EvmPollInterval == 3000
SolOrderTimeout == 300000
SolPollInterval == 2000
EvmWsTimeout    == 300000
SolWsTimeout    == 300000

\* How long a slow awaited call takes; a fast one takes no time.
SlowStep == 60000

Latencies == {0, SlowStep}

OrderTimeout(s) ==
    CASE s = "sol_poll" -> SolOrderTimeout
      [] s = "evm_ws"   -> EvmWsTimeout
      [] s = "sol_ws"   -> SolWsTimeout
      [] OTHER          -> EvmOrderTimeout

PollInterval(s) == IF s = "sol_poll" THEN SolPollInterval ELSE EvmPollInterval

----------------------------------------------------------------------------
(* The state of one running build of the script. *)

FirstPc(s) == IF s \in QuickScripts THEN "quickEnv" ELSE "loadConfig"

InitRun(s, b) ==
    [ pc         |-> IF b \in BuildsOf(s) THEN FirstPc(s) ELSE "off",
      config     |-> NoConfig,
      made       |-> {},        \* clients, wallets, SDK objects constructed
      ops        |-> <<>>,      \* adapter / SDK / RPC calls that returned or threw
      thrown     |-> NoError,   \* what main() (or the module top level) threw
      logged     |-> FALSE,     \* the entry point's catch printed the error
      exitCode   |-> -1,        \* -1 while the process runs
      balance    |-> -1,        \* the balance read, -1 before the read
      allowance  |-> -1,        \* the allowance read, -1 before the read
      quote      |-> "none",    \* what getQuote answered
      cancelConfirm |-> "none", \* what confirmTransaction answered for the cancel
      elapsed    |-> 0,         \* Date.now() - startTime / time since setTimeout
      submittedAt |-> -1,       \* the timer's reading when the wait for events began
      polls      |-> 0,         \* getOrderStatus calls made by the polling loop
      sleeps     |-> 0,         \* sleeps of the polling loop that returned
      pollAt     |-> -1,        \* elapsed when the last getOrderStatus was started
      lastStatus |-> "none",    \* what the last getOrderStatus returned
      orderHash  |-> "null",    \* WebSocket scripts: the tracked hash
      promise    |-> "none",    \* orderCompletionPromise
      settledBy  |-> "none",
      timerArmed |-> FALSE,
      orderCompleted |-> FALSE,
      wsClosed   |-> FALSE,
      feed       |-> "idle",    \* the order as the event feed sees it
      seen       |-> "none",    \* first terminal event delivered for the order
      infoLogged |-> FALSE,     \* a log-only callback printed an event of the order
      sdkNetwork |-> "none",    \* the network the FusionSDK was created for
      wsNetwork  |-> "none",    \* the network the WebSocketApi listens on
      i          |-> 0,         \* loop counter of the counted loops
      ending     |-> "none",    \* how main() left its waiting loop
      rejectedWith |-> NoError ] \* the completion promise's rejection

Op(name, to, amt) == [op |-> name, to |-> to, amt |-> amt]

Call(r, name) == [r EXCEPT !.ops = Append(@, Op(name, "", ""))]

Throw(r, e) == [r EXCEPT !.pc = "threw", !.thrown = e]

Goto(r, p) == [r EXCEPT !.pc = p]

At(p) == \E b \in Builds : run[b].pc = p

\* All builds standing at p take the step F together, on the same response.
Step(p, F(_, _)) ==
    /\ At(p)
    /\ run' = [b \in Builds |-> IF run[b].pc = p THEN F(run[b], b) ELSE run[b]]
    /\ UNCHANGED <<script, env, nodeMode, walletBalance>>

----------------------------------------------------------------------------
(* Initial states: a script, an environment. *)

PrivateKeysOf(s) == IF s \in SolanaScripts THEN SolPrivateKeys ELSE EvmPrivateKeys

NetworkIdsOf(s) == IF s \in ProviderScripts THEN NetworkIds ELSE {Undefined}

Init ==
    /\ script \in Scripts
    /\ env \in { [API_KEY |-> a, PRIVATE_KEY |-> k, NETWORK_ID |-> n] :
                 a \in ApiKeys, k \in PrivateKeysOf(script), n \in NetworkIdsOf(script) }
    /\ nodeMode \in (IF script \in WsScripts THEN {"throw", "warn"} ELSE {"throw"})
    /\ walletBalance \in BalanceReads(script)
    /\ run = [b \in Builds |-> InitRun(script, b)]

----------------------------------------------------------------------------
(* Time while a WebSocket script's timer is armed: an awaited call that    *)
(* would outlast the timer is cut by TimerFire, so a call completes only   *)
(* if it ends before the deadline.                                         *)

StepLatencies(s) == IF s \in WsScripts THEN Latencies ELSE {0}

Fits(p, d) ==
    \A b \in Builds :
        (run[b].pc = p /\ run[b].timerArmed) => run[b].elapsed + d < OrderTimeout(script)

Tick(r, d) == IF r.timerArmed THEN [r EXCEPT !.elapsed = @ + d] ELSE r

\* ws.close()
CloseWs(r) == [r EXCEPT !.wsClosed = TRUE]

\* A throw site that closes the WebSocket first (the WebSocket scripts only).
CloseAndThrow(r, s, e) == IF s \in WsScripts THEN Throw(CloseWs(r), e) ELSE Throw(r, e)

----------------------------------------------------------------------------
(* Module top level of the quick-start scripts. *)

\* `if (!API_KEY || !PRIVATE_KEY) throw`: an uncaught exception at module
\* level ends the process with status 1.
AfterQuickEnv(r, e) ==
    IF QuickEnvMissing(e)
    THEN [r EXCEPT !.pc = "exited", !.exitCode = 1, !.thrown = Err("MissingEnv", <<>>)]
    ELSE Goto(r, "quickSetup")

QuickEnvCheck ==
    /\ At("quickEnv")
    /\ Step("quickEnv", LAMBDA r, b : AfterQuickEnv(r, env))

\* solana/quick-start.ts: base58, and base64 only when bs58.decode throws.
QuickSecretKeyLength(pk) ==
    IF Bs58Throws(pk) THEN Base64Decode(pk) ELSE Bs58Decode(pk)

\* solana/quick-start.ts accepts 32-byte seeds and 64-byte keypairs.
QuickKeyLengthOk(pk) == QuickSecretKeyLength(pk) \in {32, 64}

\* A variant of the quick-start setup that goes on to a balance read and
\* check, as the full scripts do.
AfterQuickSetup_ChecksBalance(r, s, e) ==
    [r EXCEPT !.pc = "balance", !.made = @ \cup {"provider", "wallet", "sdk"}]

AfterQuickSetup(r, s, e) ==
    IF s = "evm_quick"
    THEN [r EXCEPT !.pc = "allowance", !.made = @ \cup {"provider", "wallet", "sdk"},
                   !.sdkNetwork = "ETHEREUM"]
    ELSE IF QuickKeyLengthOk(e.PRIVATE_KEY)
         THEN [r EXCEPT !.pc = "createOrder", !.made = @ \cup {"connection", "wallet", "sdk"}]
         ELSE [r EXCEPT !.pc = "exited", !.exitCode = 1, !.made = @ \cup {"connection"},
                        !.thrown = Err("InvalidKeyLength", <<>>)]

QuickSetup ==
    /\ At("quickSetup")
    /\ Step("quickSetup", LAMBDA r, b : AfterQuickSetup(r, script, env))

----------------------------------------------------------------------------
(* main(): initialization *)

AfterLoadConfig(r, s, e) ==
    IF s \in SolanaScripts
    THEN IF LoadConfigSolError(e) # NoError
         THEN Throw(r, LoadConfigSolError(e))
         ELSE [r EXCEPT !.config = LoadConfigSol(e), !.pc = "createSolanaSDK"]
    ELSE IF LoadConfigEvmError(e) # NoError
         THEN Throw(r, LoadConfigEvmError(e))
         ELSE [r EXCEPT !.config = LoadConfigEvm(e), !.pc = "createProvider"]

LoadConfig ==
    /\ At("loadConfig")
    /\ Step("loadConfig", LAMBDA r, b : AfterLoadConfig(r, script, env))

AfterCreateProvider(r, b) ==
    IF CreateProviderOk(b, r.config.networkId)
    THEN [r EXCEPT !.made = @ \cup {"provider"}, !.pc = "createFusionSDK"]
    ELSE Throw(r, Err("UnsupportedNetwork", <<>>))

CreateProvider ==
    /\ At("createProvider")
    /\ Step("createProvider", LAMBDA r, b : AfterCreateProvider(r, b))

AfterCreateFusionSDK(r, s) ==
    IF FusionNetworkKnown(r.config.networkId)
    THEN [r EXCEPT !.made = @ \cup {"sdk"},
                   !.sdkNetwork = Lookup(NETWORK_MAP, r.config.networkId),
                   !.pc = IF s \in WsScripts THEN "wsSetup" ELSE "balance"]
    ELSE Throw(r, Err("UnsupportedNetwork", <<>>))

CreateFusionSDK ==
    /\ At("createFusionSDK")
    /\ Step("createFusionSDK", LAMBDA r, b : AfterCreateFusionSDK(r, script))

\* createWallet accepts 64-byte keys only, and decodes the key after it has
\* constructed the Connection: base58 first, and base64 when bs58.decode
\* throws or gives another length than 64.
WalletKeyOk(pk) ==
    IF ~Bs58Throws(pk) /\ Bs58Decode(pk) = 64
    THEN TRUE
    ELSE Base64Decode(pk) = 64

AfterCreateSolanaSDK(r, s) ==
    IF WalletKeyOk(r.config.privateKey)
    THEN [r EXCEPT !.made = @ \cup {"connection", "wallet", "sdk"},
                   !.pc = IF s \in WsScripts THEN "wsSetup" ELSE "balance"]
    ELSE Throw([r EXCEPT !.made = @ \cup {"connection"}], Err("InvalidKeyFormat", <<>>))

CreateSolanaSDK ==
    /\ At("createSolanaSDK")
    /\ Step("createSolanaSDK", LAMBDA r, b : AfterCreateSolanaSDK(r, script))

\* The network the EVM WebSocketApi is constructed with.
WsNetwork(s, r) == IF s = "evm_ws" THEN "ETHEREUM" ELSE "solana"

\* new WebSocketApi(...), the callbacks, and the completion promise with its
\* setTimeout: the timer runs from here.
AfterWsSetup(r, s) ==
    [r EXCEPT !.made = @ \cup {"ws"}, !.wsNetwork = WsNetwork(s, r),
              !.promise = "pending", !.timerArmed = TRUE, !.elapsed = 0,
              !.pc = "balance"]

WsSetup ==
    /\ At("wsSetup")
    /\ Step("wsSetup", LAMBDA r, b : AfterWsSetup(r, script))

----------------------------------------------------------------------------
(* main(): balance and allowance *)

BalanceOp(s) ==
    CASE s \in SolanaScripts -> "connection.getBalance"
      [] s = "native"        -> "getNativeBalance"
      [] OTHER               -> "getTokenBalance"

AfterBalancePc(s) ==
    CASE s \in SolanaScripts -> "createOrder"
      [] s = "native"        -> "getQuote"
      [] OTHER               -> "allowance"

\* A variant of the balance step without the `balance < totalNeeded` check.
AfterBalance_NoCheck(r, s, fail, v) ==
    LET r1 == Call(r, BalanceOp(s)) IN
    IF fail THEN Throw(r1, NetworkFailure)
    ELSE [r1 EXCEPT !.balance = v, !.pc = AfterBalancePc(s)]

\* The balance read and the check that follows it.
AfterBalance(r, s, fail, v) ==
    LET r1 == Call(r, BalanceOp(s)) IN
    IF fail THEN Throw(r1, NetworkFailure)
    ELSE IF InsufficientBalance(s, v)
         THEN CloseAndThrow([r1 EXCEPT !.balance = v], s, Err("InsufficientBalance", <<>>))
         ELSE [r1 EXCEPT !.balance = v, !.pc = AfterBalancePc(s)]

GetBalance ==
    /\ At("balance")
    /\ \E fail, fail2 \in BOOLEAN, v2 \in BalanceReads(script), d \in StepLatencies(script) :
            /\ Fits("balance", d)
            /\ SameResponses(script, BalanceOp(script),
                             Answer(fail, walletBalance), Answer(fail2, v2))
            /\ Step("balance", LAMBDA r, b :
                    LET a == Awaited(script, b,
                                     Answer(fail, walletBalance), Answer(fail2, v2)) IN
                    AfterBalance(Tick(r, d), script, ~a.ok, a.value))

AllowanceOp(s) == IF s = "evm_quick" THEN "token.allowance" ELSE "getTokenAllowance"

AfterAllowance_Throws(r, s, fail, v) ==
    LET r1 == [r EXCEPT !.ops = Append(@, Op(AllowanceOp(s), Spender(s), "")),
                        !.allowance = IF fail THEN @ ELSE v] IN
    IF fail THEN Throw(r1, NetworkFailure)
    ELSE IF NeedsApproval(s, v) THEN Throw(r1, Err("InsufficientAllowance", <<>>))
         ELSE Goto(r1, "getQuote")

AfterAllowance(r, s, fail, v) ==
    LET r1 == [r EXCEPT !.ops = Append(@, Op(AllowanceOp(s), Spender(s), ""))]
        r2 == [r1 EXCEPT !.allowance = v] IN
    IF fail THEN Throw(r1, NetworkFailure)
    ELSE IF NeedsApproval(s, v) THEN Goto(r2, "approve") ELSE Goto(r2, "getQuote")

GetAllowance ==
    /\ At("allowance")
    /\ \E fail, fail2 \in BOOLEAN, v, v2 \in AllowanceReads(script), d \in StepLatencies(script) :
            /\ Fits("allowance", d)
            /\ fail => v = 0
            /\ fail2 => v2 = 0
            /\ SameResponses(script, AllowanceOp(script), Answer(fail, v), Answer(fail2, v2))
            /\ Step("allowance", LAMBDA r, b :
                    LET a == Awaited(script, b,
                                     Answer(fail, v), Answer(fail2, v2)) IN
                    AfterAllowance(Tick(r, d), script, ~a.ok, a.value))

ApproveOp(s) == IF s = "evm_quick" THEN "token.approve" ELSE "approveToken"

AfterApprove(r, s, fail) ==
    LET r1 == [r EXCEPT !.ops = Append(@, Op(ApproveOp(s), Spender(s), ApproveAmount(s)))] IN
    IF fail THEN Throw(r1, NetworkFailure) ELSE Goto(r1, "waitApprove")

ApproveToken ==
    /\ At("approve")
    /\ \E fail, fail2 \in BOOLEAN, d \in StepLatencies(script) :
            /\ Fits("approve", d)
            /\ SameResponses(script, ApproveOp(script),
                             Answer(fail, "txHash"), Answer(fail2, "txHash"))
            /\ Step("approve", LAMBDA r, b :
                    LET a == Awaited(script, b,
                                     Answer(fail, "txHash"), Answer(fail2, "txHash")) IN
                    AfterApprove(Tick(r, d), script, ~a.ok))

WaitOp(s) == IF s = "evm_quick" THEN "tx.wait" ELSE "waitForTransaction"

AfterWaitApprove(r, s, fail) ==
    LET r1 == Call(r, WaitOp(s)) IN
    IF fail THEN Throw(r1, NetworkFailure) ELSE Goto(r1, "getQuote")

WaitForTransaction ==
    /\ At("waitApprove")
    /\ \E fail, fail2 \in BOOLEAN, d \in StepLatencies(script) :
            /\ Fits("waitApprove", d)
            /\ SameResponses(script, WaitOp(script),
                             Answer(fail, "receipt"), Answer(fail2, "receipt"))
            /\ Step("waitApprove", LAMBDA r, b :
                    LET a == Awaited(script, b,
                                     Answer(fail, "receipt"), Answer(fail2, "receipt")) IN
                    AfterWaitApprove(Tick(r, d), script, ~a.ok))

----------------------------------------------------------------------------
(* main(): quote, order, submission *)

QuoteResponses == {"preset", "nopreset", "fail"}

\* The full scripts throw when quote.presets[quote.recommendedPreset] is
\* missing; the quick start reads it with `?.` and goes on.
ChecksPreset_Never(s) == FALSE

ChecksPreset(s) == s # "evm_quick"

AfterQuote(r, s, resp) ==
    LET r1 == [Call(r, "getQuote") EXCEPT !.quote = resp] IN
    IF resp = "fail" THEN Throw(r1, NetworkFailure)
    ELSE IF resp = "nopreset" /\ ChecksPreset(s)
         THEN CloseAndThrow(r1, s, Err("PresetNotFound", <<>>))
         ELSE Goto(r1, "createOrder")

GetQuote ==
    \E resp \in QuoteResponses, d \in StepLatencies(script) :
        /\ Fits("getQuote", d)
        /\ Step("getQuote", LAMBDA r, b : AfterQuote(Tick(r, d), script, resp))

\* The Solana WebSocket script tracks the hash as soon as the order exists.
AfterCreateOrder(r, s, fail) ==
    LET r1 == Call(r, "createOrder") IN
    IF fail THEN Throw(r1, NetworkFailure)
    ELSE IF s \in SolanaScripts
         THEN [r1 EXCEPT !.pc = "getLatestBlockhash",
                         !.orderHash = IF s = "sol_ws" THEN "H" ELSE @]
         ELSE Goto(r1, "submitOrder")

CreateOrder ==
    \E fail \in BOOLEAN, d \in StepLatencies(script) :
        /\ Fits("createOrder", d)
        /\ Step("createOrder", LAMBDA r, b : AfterCreateOrder(Tick(r, d), script, fail))

SubmitOp(s) == IF s = "native" THEN "submitNativeOrder" ELSE "submitOrder"

\* `const startTime = Date.now()`: the polling clock starts.
StartPolling(r) == [r EXCEPT !.pc = "pollCheck", !.elapsed = 0]

\* The request reaches the relayer; from here the feed can report the order.
\* In the WebSocket script the call is still pending then.  In the native
\* script the JsonRpcProvider and the Wallet of the escrow transaction are
\* constructed as soon as submitNativeOrder has returned.
AfterSubmitOrder(r, s, fail) ==
    LET r1 == Call(r, SubmitOp(s)) IN
    IF fail THEN Throw(r1, NetworkFailure)
    ELSE CASE s = "native"    -> [r1 EXCEPT !.pc = "sendEscrow",
                                            !.made = @ \cup {"escrowWallet"}]
           [] s = "evm_ws"    -> [r EXCEPT !.pc = "submitReturn", !.feed = "live"]
           [] s = "evm_quick" -> Goto(r1, "returned")
           [] OTHER           -> StartPolling(r1)

SubmitOrder ==
    \E fail \in BOOLEAN, d \in StepLatencies(script) :
        /\ Fits("submitOrder", d)
        /\ Step("submitOrder", LAMBDA r, b : AfterSubmitOrder(Tick(r, d), script, fail))

\* sdk.submitOrder returns: `orderHash = orderInfo.orderHash`.
AfterSubmitReturn(r, s, fail) ==
    LET r1 == Call(r, SubmitOp(s)) IN
    IF fail THEN Throw(r1, NetworkFailure)
    ELSE [r1 EXCEPT !.orderHash = "H", !.submittedAt = r.elapsed, !.pc = "awaitCompletion"]

SubmitReturn ==
    \E fail \in BOOLEAN, d \in StepLatencies(script) :
        /\ Fits("submitReturn", d)
        /\ Step("submitReturn", LAMBDA r, b : AfterSubmitReturn(Tick(r, d), script, fail))

\* Native ETH: the escrow transaction.
\* A variant that starts polling as soon as the escrow transaction is sent.
AfterSendEscrow_NoWait(r, fail) ==
    LET r1 == Call(r, "wallet.sendTransaction") IN
    IF fail THEN Throw(r1, NetworkFailure) ELSE StartPolling(r1)

AfterSendEscrow(r, fail) ==
    LET r1 == Call(r, "wallet.sendTransaction") IN
    IF fail THEN Throw(r1, NetworkFailure) ELSE Goto(r1, "waitEscrow")

SendEscrow ==
    \E fail \in BOOLEAN :
        /\ At("sendEscrow")
        /\ Step("sendEscrow", LAMBDA r, b : AfterSendEscrow(r, fail))

AfterWaitEscrow(r, fail) ==
    LET r1 == Call(r, "txRes.wait") IN
    IF fail THEN Throw(r1, NetworkFailure) ELSE StartPolling(r1)

WaitEscrow ==
    \E fail \in BOOLEAN :
        /\ At("waitEscrow")
        /\ Step("waitEscrow", LAMBDA r, b : AfterWaitEscrow(r, fail))

----------------------------------------------------------------------------
(* Solana: the escrow transaction *)

AfterLatestBlockhash(r, fail) ==
    LET r1 == Call(r, "getLatestBlockhash") IN
    IF fail THEN Throw(r1, NetworkFailure) ELSE Goto(r1, "sendRawTransaction")

GetLatestBlockhash ==
    \E fail \in BOOLEAN, d \in StepLatencies(script) :
        /\ Fits("getLatestBlockhash", d)
        /\ Step("getLatestBlockhash", LAMBDA r, b : AfterLatestBlockhash(Tick(r, d), fail))

\* The transaction reaches the cluster; from here the feed can report the
\* order.  In the WebSocket script the call is still pending then.
AfterSendRaw(r, s, fail) ==
    LET r1 == Call(r, "sendRawTransaction") IN
    IF fail THEN Throw(r1, NetworkFailure)
    ELSE IF s = "sol_ws" THEN [r EXCEPT !.pc = "sendRawReturn", !.feed = "live"]
    ELSE [r1 EXCEPT !.pc = IF s = "sol_quick" THEN "sigStatus" ELSE "confirmTransaction",
                    !.feed = IF s = "sol_cancel" THEN "live" ELSE @]

SendRawTransaction ==
    \E fail \in BOOLEAN, d \in StepLatencies(script) :
        /\ Fits("sendRawTransaction", d)
        /\ Step("sendRawTransaction", LAMBDA r, b : AfterSendRaw(Tick(r, d), script, fail))

\* connection.sendRawTransaction returns the signature, or rejects.
AfterSendRawReturn(r, fail) ==
    LET r1 == Call(r, "sendRawTransaction") IN
    IF fail THEN Throw(r1, NetworkFailure) ELSE Goto(r1, "confirmTransaction")

SendRawReturn ==
    \E fail \in BOOLEAN, d \in StepLatencies(script) :
        /\ Fits("sendRawReturn", d)
        /\ Step("sendRawReturn", LAMBDA r, b : AfterSendRawReturn(Tick(r, d), fail))

ConfirmResponses == {"ok", "err", "fail"}

AfterConfirmPc(s) ==
    CASE s = "sol_ws"     -> "awaitCompletion"
      [] s = "sol_cancel" -> "verify"
      [] OTHER            -> "pollCheck"

\* connection.confirmTransaction and the `confirmation.value.err` check.
AfterConfirm(r, s, resp) ==
    LET r1 == Call(r, "confirmTransaction") IN
    IF resp = "fail" THEN Throw(r1, NetworkFailure)
    ELSE IF resp = "err" THEN CloseAndThrow(r1, s, Err("TransactionFailed", <<>>))
    ELSE IF s = "sol_poll" THEN StartPolling(r1)
    ELSE IF s = "sol_ws" THEN [r1 EXCEPT !.submittedAt = r.elapsed, !.pc = AfterConfirmPc(s)]
    ELSE Goto(r1, AfterConfirmPc(s))

ConfirmTransaction ==
    \E resp \in ConfirmResponses, d \in StepLatencies(script) :
        /\ Fits("confirmTransaction", d)
        /\ Step("confirmTransaction", LAMBDA r, b : AfterConfirm(Tick(r, d), script, resp))

----------------------------------------------------------------------------
(* The order-status polling loop *)

OrderStatuses ==
    {"Pending", "Filled", "FalsePredicate", "NotEnoughBalanceOrAllowance", "Expired",
     "PartiallyFilled", "WrongPermit", "Cancelled", "InvalidSignature"}

SolStatuses == {"active", "filled", "cancelled", "expired"}

StatusesOf(s) == IF s \in SolanaScripts THEN SolStatuses ELSE OrderStatuses

\* status.isActive()
IsActive(st) == st = "active"

\* A status call returns at once, or only after the whole timeout has passed.
PollLatencies(s) == {0, OrderTimeout(s)}

\* `while (Date.now() - startTime < orderTimeout)`
WhileContinues(s, elapsed) == elapsed < OrderTimeout(s)

\* Leaving the loop by its condition: the EVM scripts throw, the Solana
\* script prints a warning and returns.
AfterLoopTimeout(r, s) ==
    IF s = "sol_poll"
    THEN [r EXCEPT !.pc = "returned", !.ending = "timeout"]
    ELSE Throw([r EXCEPT !.ending = "timeout"], Err("Timeout", MsgOrderTimeout))

AfterPollCheck(r, s) ==
    IF WhileContinues(s, r.elapsed) THEN Goto(r, "getOrderStatus") ELSE AfterLoopTimeout(r, s)

PollCheck ==
    /\ At("pollCheck")
    /\ Step("pollCheck", LAMBDA r, b : AfterPollCheck(r, script))

\* The catch clause of the EVM loop: `error instanceof Error &&
\* error.message.includes("Order")` rethrows.
CatchRethrows(e) == e.isError /\ Includes(e.message, NeedleOrder)

SwitchThrows_InvalidThrows(st) ==
    CASE st = "Expired"          -> Err("Expired", MsgExpired)
      [] st = "Cancelled"        -> Err("Cancelled", MsgCancelled)
      [] st = "InvalidSignature" -> Err("Cancelled", MsgCancelled)
      [] OTHER                   -> NoError

\* What the try block throws for a returned status, NoError if nothing.
SwitchThrows(st) ==
    CASE st = "Expired"   -> Err("Expired", MsgExpired)
      [] st = "Cancelled" -> Err("Cancelled", MsgCancelled)
      [] OTHER            -> NoError

\* A variant of the loop body in which `case OrderStatus.Expired` shares the
\* Filled branch and returns.
EvmPollBody_ExpiredReturns(r, resp, e) ==
    IF resp \in {"Filled", "Expired"} THEN [r EXCEPT !.pc = "returned", !.ending = "filled"]
    ELSE IF resp = "Cancelled" THEN Throw([r EXCEPT !.ending = "terminal"], SwitchThrows(resp))
    ELSE IF resp = "throw" /\ CatchRethrows(e) THEN Throw([r EXCEPT !.ending = "apiError"], e)
    ELSE Goto(r, "sleep")

\* One pass through try/catch of the EVM loop, the status call done.
\* resp is a status, or "throw" with error e.
EvmPollBody(r, resp, e) ==
    LET thrownInTry == IF resp = "throw" THEN e ELSE SwitchThrows(resp) IN
    IF resp = "Filled" THEN [r EXCEPT !.pc = "returned", !.ending = "filled"]
    ELSE IF thrownInTry = NoError /\ resp # "throw" THEN Goto(r, "sleep")
    ELSE IF CatchRethrows(thrownInTry)
         THEN Throw([r EXCEPT !.ending = IF resp = "throw" THEN "apiError" ELSE "terminal"],
                    thrownInTry)
         ELSE Goto(r, "sleep")

\* A variant of the Solana loop whose catch clause retries at once.
SolPollBody_RetriesAtOnce(r, resp) ==
    IF resp = "throw" THEN Goto(r, "pollCheck")
    ELSE IF ~IsActive(resp) THEN [r EXCEPT !.pc = "returned", !.ending = "inactive"]
    ELSE Goto(r, "sleep")

\* The Solana loop: `catch {}` retries on everything.
SolPollBody(r, resp) ==
    IF resp = "throw" THEN Goto(r, "sleep")
    ELSE IF ~IsActive(resp) THEN [r EXCEPT !.pc = "returned", !.ending = "inactive"]
    ELSE Goto(r, "sleep")

AfterGetOrderStatus(r, s, resp, e, d) ==
    LET r1 == [r EXCEPT !.polls = @ + 1, !.pollAt = r.elapsed, !.elapsed = @ + d,
                        !.lastStatus = resp] IN
    IF s = "sol_poll" THEN SolPollBody(r1, resp) ELSE EvmPollBody(r1, resp, e)

GetOrderStatus ==
    \E resp \in StatusesOf(script) \cup {"throw"}, e \in ApiErrors, d \in PollLatencies(script) :
        /\ resp # "throw" => e = NetworkFailure
        /\ Step("getOrderStatus", LAMBDA r, b : AfterGetOrderStatus(r, script, resp, e, d))

\* A variant in which `const startTime = Date.now()` sits inside the loop:
\* after the sleep the wait starts afresh.
AfterSleep_Restarts(r, s) ==
    [r EXCEPT !.elapsed = 0, !.polls = 0, !.sleeps = 0, !.pollAt = -1,
              !.lastStatus = "none", !.pc = "pollCheck"]

\* `await sleep(pollInterval)`
AfterSleep(r, s) ==
    [r EXCEPT !.elapsed = @ + PollInterval(s), !.sleeps = @ + 1, !.lastStatus = "none",
              !.pc = "pollCheck"]

Sleep ==
    /\ At("sleep")
    /\ Step("sleep", LAMBDA r, b : AfterSleep(r, script))

----------------------------------------------------------------------------
(* Entry points *)

\* The full scripts end with main().then(exit 0).catch(log; exit 1); the
\* quick starts with main().catch(console.error), after which the process
\* ends by itself with status 0.
CatchExitCode(s) == IF s \in QuickScripts THEN 0 ELSE 1

AfterEntryThen(r) == [r EXCEPT !.pc = "exited", !.exitCode = 0]

EntryThen ==
    /\ At("returned")
    /\ Step("returned", LAMBDA r, b : AfterEntryThen(r))

AfterEntryCatch(r, s) ==
    [r EXCEPT !.pc = "exited", !.logged = TRUE, !.exitCode = CatchExitCode(s)]

EntryCatch ==
    /\ At("threw")
    /\ Step("threw", LAMBDA r, b : AfterEntryCatch(r, script))

----------------------------------------------------------------------------
(* WebSocket scripts: the completion promise, its timer, the event feed *)

Running(r) == r.pc \notin {"off", "returned", "threw", "exited"}

\* The callbacks are registered and the socket is open.
Listening(r) == "ws" \in r.made /\ ~r.wsClosed /\ Running(r)

Hashes == {"H", "other"}

\* A variant of resolve() that settles the promise again.
Resolve_Overwrites(r, by) == [r EXCEPT !.promise = "resolved", !.settledBy = by]

\* resolve() / reject(e): a settled promise stays as it is.
Resolve(r, by) ==
    IF r.promise = "pending" THEN [r EXCEPT !.promise = "resolved", !.settledBy = by] ELSE r

Reject(r, by, e) ==
    IF r.promise = "pending"
    THEN [r EXCEPT !.promise = "rejected", !.settledBy = by, !.rejectedWith = e]
    ELSE r

\* `if (event.result.orderHash === orderHash)`
Tracked(r, h) == h = r.orderHash

\* A variant of the fill callback without the hash comparison.
OnOrderFilled_AnyHash(r, h) ==
    Resolve([r EXCEPT !.timerArmed = FALSE, !.orderCompleted = TRUE], "filled")

OnOrderFilled(r, h) ==
    IF Tracked(r, h)
    THEN Resolve([r EXCEPT !.timerArmed = FALSE, !.orderCompleted = TRUE], "filled")
    ELSE r

InvalidError(s) ==
    IF s = "evm_ws" THEN Err("Invalidated", MsgInvalidated) ELSE Err("Cancelled", MsgCancelled)

\* A rejection of the completion promise before main() awaits it is an
\* unhandled rejection: Node ends the process with status 1 ("throw"), or
\* only warns.
Unhandled(r, mode) == r.promise = "rejected" /\ r.pc # "awaitCompletion" /\ mode = "throw"

DieUnhandled(r) == [r EXCEPT !.pc = "exited", !.exitCode = 1, !.thrown = r.rejectedWith]

OnOrderInvalid(r, s, h, mode) ==
    LET r1 == Reject([r EXCEPT !.timerArmed = FALSE, !.orderCompleted = TRUE], "invalid",
                     InvalidError(s)) IN
    IF Tracked(r, h)
    THEN IF r.promise = "pending" /\ Unhandled(r1, mode) THEN DieUnhandled(r1) ELSE r1
    ELSE r

TerminalEvents == {"filled", "invalid"}

\* The callbacks that only print: onOrderCreated in both scripts,
\* onOrderFilledPartially and onOrderBalanceOrAllowanceChange in the EVM one.
InfoEvents(s) ==
    IF s = "evm_ws" THEN {"created", "partial", "balanceOrAllowance"} ELSE {"created"}

OnOrderInfo(r, h) == IF Tracked(r, h) THEN [r EXCEPT !.infoLogged = TRUE] ELSE r

\* The feed reports the submitted order once the relayer has it, any number
\* of times and in any order; other orders' events arrive at any time.
Deliver(h, kind, F(_, _)) ==
    /\ \E b \in Builds : Listening(run[b]) /\ (h = "H" => run[b].feed = "live")
    /\ run' = [b \in Builds |->
                 IF Listening(run[b]) /\ (h = "H" => run[b].feed = "live")
                 THEN [F(run[b], h) EXCEPT
                          !.seen = IF h = "H" /\ @ = "none" /\ kind \in TerminalEvents
                                   THEN kind ELSE @]
                 ELSE run[b]]
    /\ UNCHANGED <<script, env, nodeMode, walletBalance>>

OrderFilledEvent ==
    \E h \in Hashes :
        /\ script \in WsScripts
        /\ Deliver(h, "filled", LAMBDA r, x : OnOrderFilled(r, x))

OrderInvalidEvent ==
    \E h \in Hashes :
        /\ script \in WsScripts
        /\ Deliver(h, "invalid", LAMBDA r, x : OnOrderInvalid(r, script, x, nodeMode))

OrderInfoEvent ==
    \E h \in Hashes, kind \in InfoEvents(script) :
        /\ script \in WsScripts
        /\ Deliver(h, kind, LAMBDA r, x : OnOrderInfo(r, x))

\* The timer callback.
OnTimer(r, s, mode) ==
    LET r1 == Reject([r EXCEPT !.timerArmed = FALSE, !.elapsed = OrderTimeout(s)],
                     "timer", Err("Timeout", MsgOrderTimeout)) IN
    IF Unhandled(r1, mode) THEN DieUnhandled(r1) ELSE r1

TimerFire ==
    /\ \E b \in Builds : run[b].timerArmed /\ Running(run[b])
    /\ run' = [b \in Builds |->
                 IF run[b].timerArmed /\ Running(run[b])
                 THEN OnTimer(run[b], script, nodeMode) ELSE run[b]]
    /\ UNCHANGED <<script, env, nodeMode, walletBalance>>

\* `try { await orderCompletionPromise } finally { ws.close() }`
AfterAwait(r) ==
    IF r.promise = "resolved"
    THEN [CloseWs(r) EXCEPT !.pc = "returned", !.ending = r.settledBy]
    ELSE Throw([CloseWs(r) EXCEPT !.ending = r.settledBy], r.rejectedWith)

AwaitCompletion ==
    /\ \E b \in Builds : run[b].pc = "awaitCompletion" /\ run[b].promise # "pending"
    /\ run' = [b \in Builds |->
                 IF run[b].pc = "awaitCompletion" /\ run[b].promise # "pending"
                 THEN AfterAwait(run[b]) ELSE run[b]]
    /\ UNCHANGED <<script, env, nodeMode, walletBalance>>

----------------------------------------------------------------------------
(* Solana quick start: the confirmation loop *)

QuickMaxPolls == 30

SignatureStatuses == {"null", "processed", "confirmed", "finalized", "confirmedErr", "fail"}

\* `value[0]?.confirmationStatus === "confirmed"`
QuickConfirmed(st) == st \in {"confirmed", "confirmedErr"}

AfterSigStatus(r, st) ==
    LET r1 == [Call(r, "getSignatureStatuses") EXCEPT !.polls = @ + 1, !.lastStatus = st] IN
    IF st = "fail" THEN Throw(r1, NetworkFailure)
    ELSE IF QuickConfirmed(st) THEN [r1 EXCEPT !.pc = "returned", !.ending = "confirmed"]
    ELSE Goto(r1, "quickSleep")

\* `for (let i = 0; i < 30; i++)`: the body runs while i < 30; after the
\* loop main() returns without a word.
SigStatus ==
    \E st \in SignatureStatuses :
        /\ At("sigStatus")
        /\ Step("sigStatus", LAMBDA r, b : AfterSigStatus(r, st))

AfterQuickSleep(r) ==
    IF r.i + 1 < QuickMaxPolls
    THEN [r EXCEPT !.i = @ + 1, !.lastStatus = "none", !.pc = "sigStatus"]
    ELSE [r EXCEPT !.i = @ + 1, !.lastStatus = "none", !.pc = "returned", !.ending = "exhausted"]

QuickSleep ==
    /\ At("quickSleep")
    /\ Step("quickSleep", LAMBDA r, b : AfterQuickSleep(r))

----------------------------------------------------------------------------
(* Solana cancel-order script, after createOrderForDemo *)

MaxRetries == 5

\* What the script imports from ../utils/connection.js.
CancelImports == {"loadConfig", "createSolanaSDK", "formatSol"}

\* `await sleep(retryDelay)` names an identifier; outside the imports it is a
\* ReferenceError, thrown inside the try block.
SleepInScope == "sleep" \in CancelImports

NextAttempt(r) ==
    IF r.i + 1 < MaxRetries
    THEN [r EXCEPT !.i = @ + 1]
    ELSE [r EXCEPT !.i = @ + 1, !.pc = "cancelBlockhash"]

\* One iteration of the verification loop.
AfterVerify(r, resp) ==
    IF ~SleepInScope THEN NextAttempt(r)
    ELSE LET r1 == [Call(r, "getOrderStatus") EXCEPT !.polls = @ + 1, !.lastStatus = resp] IN
         IF resp = "throw" THEN NextAttempt(r1)
         ELSE IF IsActive(resp) THEN Goto(r1, "cancelBlockhash")
         ELSE [r1 EXCEPT !.pc = "returned", !.ending = "inactive"]

Verify ==
    \E resp \in SolStatuses \cup {"throw"} :
        /\ At("verify")
        /\ Step("verify", LAMBDA r, b : AfterVerify(r, resp))

\* A resolver fills the order on chain.
ResolverFill ==
    /\ script = "sol_cancel"
    /\ \E b \in Builds : Running(run[b]) /\ run[b].feed = "live"
    /\ run' = [b \in Builds |->
                 IF Running(run[b]) /\ run[b].feed = "live"
                 THEN [run[b] EXCEPT !.feed = "filled"] ELSE run[b]]
    /\ UNCHANGED <<script, env, nodeMode, walletBalance>>

AfterCancelBlockhash(r, fail) ==
    LET r1 == Call(r, "getLatestBlockhash") IN
    IF fail THEN Throw(r1, NetworkFailure) ELSE Goto(r1, "sendCancel")

CancelBlockhash ==
    \E fail \in BOOLEAN :
        /\ At("cancelBlockhash")
        /\ Step("cancelBlockhash", LAMBDA r, b : AfterCancelBlockhash(r, fail))

AfterSendCancel(r, fail) ==
    LET r1 == [r EXCEPT !.ops = Append(@, Op("sendRawTransaction", "cancel", ""))] IN
    IF fail THEN Throw(r1, NetworkFailure) ELSE Goto(r1, "confirmCancel")

SendCancel ==
    \E fail \in BOOLEAN :
        /\ At("sendCancel")
        /\ Step("sendCancel", LAMBDA r, b : AfterSendCancel(r, fail))

AfterConfirmCancel_IgnoresErr(r, resp) ==
    LET r1 == [r EXCEPT !.ops = Append(@, Op("confirmTransaction", "cancel", "")),
                        !.cancelConfirm = resp] IN
    IF resp = "fail" THEN Throw(r1, NetworkFailure)
    ELSE [r1 EXCEPT !.pc = "finalStatus", !.ending = "cancelled",
                    !.feed = IF resp = "ok" /\ @ = "live" THEN "cancelled" ELSE @]

\* `cancelConfirm.value.err` decides: thrown 'Cancel failed', or 'Order
\* cancelled successfully' and the rest of main.  An order still open when
\* the confirmation carries no error is cancelled, and no fill follows; the
\* script reads nothing else of the order here, so a fill it did not see
\* stays what it was.
AfterConfirmCancel(r, resp) ==
    LET r1 == [r EXCEPT !.ops = Append(@, Op("confirmTransaction", "cancel", "")),
                        !.cancelConfirm = resp] IN
    IF resp = "fail" THEN Throw(r1, NetworkFailure)
    ELSE IF resp = "err" THEN Throw(r1, Err("CancelFailed", <<>>))
    ELSE [r1 EXCEPT !.pc = "finalStatus", !.ending = "cancelled",
                    !.feed = IF @ = "live" THEN "cancelled" ELSE @]

ConfirmCancel ==
    \E resp \in ConfirmResponses :
        /\ At("confirmCancel")
        /\ Step("confirmCancel", LAMBDA r, b : AfterConfirmCancel(r, resp))

\* A variant without the try/catch around the final status query.
AfterFinalStatus_Throws(r, resp) ==
    LET r1 == [Call(r, "getOrderStatus") EXCEPT !.lastStatus = resp] IN
    IF resp = "throw" THEN Throw(r1, NetworkFailure) ELSE Goto(r1, "finalBalance")

\* The final status query sits in its own try/catch: either way main goes on.
AfterFinalStatus(r, resp) ==
    [Call(r, "getOrderStatus") EXCEPT !.lastStatus = resp, !.pc = "finalBalance"]

FinalStatus ==
    \E resp \in SolStatuses \cup {"throw"} :
        /\ At("finalStatus")
        /\ Step("finalStatus", LAMBDA r, b : AfterFinalStatus(r, resp))

AfterFinalBalance(r, fail) ==
    LET r1 == Call(r, "connection.getBalance") IN
    IF fail THEN Throw(r1, NetworkFailure) ELSE Goto(r1, "returned")

FinalBalance ==
    \E fail \in BOOLEAN :
        /\ At("finalBalance")
        /\ Step("finalBalance", LAMBDA r, b : AfterFinalBalance(r, fail))

----------------------------------------------------------------------------
(* utils/connection.ts: confirmTransactionPolling, called on its own.  In  *)
(* the specification of the call, `run` holds the state of the one call.   *)

DefaultTimeoutMs == 60000
DefaultPollIntervalMs == 2000

\* Other argument values, and how long a slow RPC call takes.
ShortTimeoutMs == 5000
RpcLatencyMs == 700

TimeoutInputs == {0 - ShortTimeoutMs, 0, ShortTimeoutMs, DefaultTimeoutMs}

PollIntervalInputs == {RpcLatencyMs, DefaultPollIntervalMs}

Slots == {1, 2}

\* statuses[0] of a getSignatureStatuses response: null, or a status with
\* its err, confirmationStatus and slot.
NullStatus ==
    [asked |-> TRUE, isNull |-> TRUE, err |-> "null", confirmationStatus |-> "null", slot |-> 0]

SignatureStatusReplies ==
    {NullStatus} \cup
    { [asked |-> TRUE, isNull |-> FALSE, err |-> e, confirmationStatus |-> c, slot |-> s] :
        e \in {"null", "InstructionError"},
        c \in {"null", "processed", "confirmed", "finalized"},
        s \in Slots }

\* No response read in this pass of the loop.
NotAsked ==
    [asked |-> FALSE, isNull |-> TRUE, err |-> "null", confirmationStatus |-> "null", slot |-> 0]

NoReturn == [confirmed |-> FALSE, slot |-> 0]

\* `const startTime = Date.now()` with the arguments of the call.
ConfirmCall(timeoutMs, pollIntervalMs) ==
    [ pc |-> "while", timeoutMs |-> timeoutMs, pollIntervalMs |-> pollIntervalMs,
      elapsed |-> 0, polls |-> 0, sleeps |-> 0, pollAt |-> -1, rpcFailed |-> FALSE,
      lastStatus |-> NotAsked, returned |-> NoReturn, thrown |-> NoError ]

\* `while (Date.now() - startTime < timeoutMs)`, and the throw after the loop.
AfterConfirmWhile(c) ==
    IF c.elapsed < c.timeoutMs
    THEN [c EXCEPT !.pc = "getSignatureStatuses"]
    ELSE [c EXCEPT !.pc = "threw", !.thrown = Err("ConfirmTimeout", <<>>)]

\* A variant of the loop body that looks at confirmationStatus before err.
ConfirmBody_ConfirmedFirst(c, status) ==
    IF ~status.isNull /\ status.confirmationStatus \in {"confirmed", "finalized"}
    THEN [c EXCEPT !.pc = "returned", !.returned = [confirmed |-> TRUE, slot |-> status.slot]]
    ELSE IF ~status.isNull /\ status.err # "null"
    THEN [c EXCEPT !.pc = "threw", !.thrown = Err("TransactionFailed", <<>>)]
    ELSE [c EXCEPT !.pc = "sleep"]

\* `if (status) { if (status.err) throw ...; if (confirmed or finalized)
\* return {confirmed: true, slot: status.slot} }`
ConfirmBody(c, status) ==
    IF ~status.isNull /\ status.err # "null"
    THEN [c EXCEPT !.pc = "threw", !.thrown = Err("TransactionFailed", <<>>)]
    ELSE IF ~status.isNull /\ status.confirmationStatus \in {"confirmed", "finalized"}
    THEN [c EXCEPT !.pc = "returned", !.returned = [confirmed |-> TRUE, slot |-> status.slot]]
    ELSE [c EXCEPT !.pc = "sleep"]

\* The awaited connection.getSignatureStatuses([signature]) took d; a
\* rejection leaves the function as it is thrown.
AfterGetSignatureStatuses(c, status, fail, d) ==
    LET c1 == [c EXCEPT !.polls = @ + 1, !.pollAt = c.elapsed, !.elapsed = @ + d] IN
    IF fail THEN [c1 EXCEPT !.pc = "threw", !.thrown = NetworkFailure, !.rpcFailed = TRUE]
    ELSE ConfirmBody([c1 EXCEPT !.lastStatus = status], status)

\* A variant in which `const startTime = Date.now()` sits inside the loop.
AfterConfirmSleep_Restarts(c) ==
    [c EXCEPT !.elapsed = 0, !.polls = 0, !.sleeps = 0, !.pollAt = -1,
              !.lastStatus = NotAsked, !.pc = "while"]

\* `await sleep(pollIntervalMs)`
AfterConfirmSleep(c) ==
    [c EXCEPT !.elapsed = @ + c.pollIntervalMs, !.sleeps = @ + 1, !.lastStatus = NotAsked,
              !.pc = "while"]

PollingInit ==
    /\ script = "confirmTransactionPolling"
    /\ env = [API_KEY |-> Undefined, PRIVATE_KEY |-> Undefined, NETWORK_ID |-> Undefined]
    /\ nodeMode = "throw"
    /\ walletBalance = 0
    /\ run \in {ConfirmCall(t, p) : t \in TimeoutInputs, p \in PollIntervalInputs}

ConfirmWhile ==
    /\ run.pc = "while"
    /\ run' = AfterConfirmWhile(run)
    /\ UNCHANGED <<script, env, nodeMode, walletBalance>>

GetSignatureStatuses ==
    /\ run.pc = "getSignatureStatuses"
    /\ \E status \in SignatureStatusReplies, fail \in BOOLEAN, d \in {0, RpcLatencyMs} :
          /\ fail => status = NullStatus
          /\ run' = AfterGetSignatureStatuses(run, status, fail, d)
    /\ UNCHANGED <<script, env, nodeMode, walletBalance>>

ConfirmSleep ==
    /\ run.pc = "sleep"
    /\ run' = AfterConfirmSleep(run)
    /\ UNCHANGED <<script, env, nodeMode, walletBalance>>

PollingNext == ConfirmWhile \/ GetSignatureStatuses \/ ConfirmSleep

PollingSpec == PollingInit /\ [][PollingNext]_vars

\* Every RPC call and every sleep returns, and the loop condition is
\* evaluated.
PollingFairSpec ==
    PollingSpec /\ WF_vars(ConfirmWhile) /\ WF_vars(GetSignatureStatuses) /\ WF_vars(ConfirmSleep)

----------------------------------------------------------------------------

(* The specification *)

Next ==
    \/ QuickEnvCheck
    \/ QuickSetup
    \/ LoadConfig
    \/ CreateProvider
    \/ CreateFusionSDK
    \/ CreateSolanaSDK
    \/ WsSetup
    \/ GetBalance
    \/ GetAllowance
    \/ ApproveToken
    \/ WaitForTransaction
    \/ GetQuote
    \/ CreateOrder
    \/ SubmitOrder
    \/ SubmitReturn
    \/ SendEscrow
    \/ WaitEscrow
    \/ GetLatestBlockhash
    \/ SendRawTransaction
    \/ SendRawReturn
    \/ ConfirmTransaction
    \/ PollCheck
    \/ GetOrderStatus
    \/ Sleep
    \/ OrderFilledEvent
    \/ OrderInvalidEvent
    \/ OrderInfoEvent
    \/ TimerFire
    \/ AwaitCompletion
    \/ SigStatus
    \/ QuickSleep
    \/ Verify
    \/ ResolverFill
    \/ CancelBlockhash
    \/ SendCancel
    \/ ConfirmCancel
    \/ FinalStatus
    \/ FinalBalance
    \/ EntryThen
    \/ EntryCatch

Spec == Init /\ [][Next]_vars

\* Every status call and every sleep of the polling loop returns, and the
\* loop condition is evaluated: the loop's steps are taken when they can be.
FairSpec ==
    Spec /\ WF_vars(PollCheck) /\ WF_vars(GetOrderStatus) /\ WF_vars(Sleep)

----------------------------------------------------------------------------
(* Properties *)

Finished(r) == r.pc = "exited"

\* C1: an EVM polling script (ERC-20, Permit2, native ETH) exits with status 0
\* exactly when sdk.getOrderStatus, called by the loop before the order
\* timeout, returned Filled; every other finished run (Expired, Cancelled,
\* timeout, a failure before polling) exits with status 1.
C1_ExitZeroIffFilled ==
    script \in EvmPollScripts =>
        \A b \in Builds : Finished(run[b]) =>
            /\ run[b].exitCode \in {0, 1}
            /\ (run[b].exitCode = 0) <=>
                  (/\ run[b].lastStatus = "Filled"
                   /\ run[b].pollAt >= 0
                   /\ run[b].pollAt < OrderTimeout(script))

\* An EVM polling run that slept at least once, then saw Filled and exited 0.
C1_Witness ==
    /\ script \in EvmPollScripts
    /\ \E b \in Builds :
          /\ Finished(run[b]) /\ run[b].exitCode = 0
          /\ run[b].lastStatus = "Filled" /\ run[b].polls > 1

\* The wait of a finished run ended by its timeout, no terminal outcome seen:
\* the polling loop was left by its condition, or the timer settled the
\* completion promise.
TimedOut(r, s) ==
    /\ Finished(r)
    /\ IF s \in WsScripts THEN r.settledBy = "timer" ELSE r.ending = "timeout"

WaitingScripts == PollScripts \cup WsScripts

\* C2: in every script that waits for completion (EVM and Solana
\* polling, EVM and Solana WebSocket), a run whose wait ended by the timeout
\* exits with a non-zero status.
C2_TimeoutExitsNonZero ==
    script \in WaitingScripts =>
        \A b \in Builds : TimedOut(run[b], script) => run[b].exitCode # 0

\* C3: the Solana polling script exits with status 0 only when the order was
\* filled; when getOrderStatus reports the order inactive because it was
\* cancelled or expired, the process exits with status 1.
C3_InactiveUnfilledExitsOne ==
    script = "sol_poll" =>
        \A b \in Builds : Finished(run[b]) =>
            /\ run[b].exitCode = 0 => run[b].lastStatus = "filled"
            /\ run[b].lastStatus \in {"cancelled", "expired"} => run[b].exitCode = 1

\* The calls that move funds or place an order.
FundOps ==
    {"approveToken", "token.approve", "createOrder", "submitOrder", "submitNativeOrder",
     "wallet.sendTransaction", "sendRawTransaction"}

MadeFundOp(r) == \E i \in DOMAIN r.ops : r.ops[i].op \in FundOps

FullScripts == Scripts \ QuickScripts

\* C4: in the full scripts, once the balance read is below the required
\* amount (swap amount plus the fixed buffer for native ETH and SOL) the
\* script has thrown its insufficient-balance error, and the run never makes
\* a call that moves funds or places an order.
C4_InsufficientBalanceStops ==
    script \in FullScripts =>
        \A b \in Builds :
            (run[b].balance >= 0 /\ run[b].balance < Amount(script) + Buffer(script)) =>
                /\ run[b].thrown.kind = "InsufficientBalance"
                /\ run[b].pc \in {"threw", "exited"}
                /\ ~MadeFundOp(run[b])

\* A native-ETH run whose balance covers the amount but not the gas buffer,
\* finished with the insufficient-balance error.
C4_Witness ==
    /\ script = "native"
    /\ \E b \in Builds :
          /\ run[b].balance >= Amount(script) /\ run[b].balance < TotalNeeded(script)
          /\ Finished(run[b]) /\ run[b].exitCode = 1
          /\ run[b].thrown.kind = "InsufficientBalance"

\* C5 (as stated): in the two quick-start scripts, a wallet balance below the
\* swap amount makes the script fail before any call that moves funds or
\* places an order.
C5_QuickStartBalanceStops ==
    (script \in QuickScripts /\ walletBalance < Amount(script)) =>
        \A b \in Builds : ~MadeFundOp(run[b])

BalanceOps == {"getTokenBalance", "getNativeBalance", "connection.getBalance"}

\* C5 (amended): the quick-start scripts never read or compare the wallet
\* balance and never throw an insufficient-balance error; whatever the
\* balance, they go on to the calls that move funds or place an order.
C5_QuickStartNoBalanceCheck ==
    script \in QuickScripts =>
        \A b \in Builds :
            /\ run[b].balance = -1
            /\ run[b].thrown.kind # "InsufficientBalance"
            /\ \A i \in DOMAIN run[b].ops : run[b].ops[i].op \notin BalanceOps

\* A quick-start run with an empty wallet that approved, created and
\* submitted its order.
C5_Witness ==
    /\ script = "evm_quick" /\ walletBalance = 0
    /\ \E b \in Builds :
          /\ \E i \in DOMAIN run[b].ops : run[b].ops[i].op = "token.approve"
          /\ \E i \in DOMAIN run[b].ops : run[b].ops[i].op = "submitOrder"
          /\ Finished(run[b])

MissingEnv == Falsy(env.API_KEY) \/ Falsy(env.PRIVATE_KEY)

\* C6: with API_KEY or the private key missing or empty, the run fails at its
\* first step: no client, wallet, SDK object or WebSocket is ever constructed,
\* no call is made, and the process exits with status 1.
C6_MissingEnvFailsFirst ==
    MissingEnv =>
        \A b \in Builds :
            /\ run[b].made = {}
            /\ run[b].ops = <<>>
            /\ run[b].polls = 0
            /\ run[b].pc \in {"off", FirstPc(script), "threw", "exited"}
            /\ Finished(run[b]) => run[b].exitCode = 1

\* An EVM script started with an API key and an empty private key, finished.
C6_Witness ==
    /\ script \in ProviderScripts
    /\ ~Falsy(env.API_KEY) /\ env.PRIVATE_KEY = <<>>
    /\ \E b \in Builds : Finished(run[b]) /\ run[b].exitCode = 1

\* What a run shows of itself: its calls, its status polls, where it stands
\* and how it ended.
Observed(r) ==
    [ops |-> r.ops, polls |-> r.polls, lastStatus |-> r.lastStatus, pc |-> r.pc,
     ending |-> r.ending, thrown |-> r.thrown, exitCode |-> r.exitCode]

\* A configuration loadConfig and createFusionSDK accept, as the claim reads
\* it: the networkId is a key of NETWORK_MAP.
AcceptedConfig ==
    /\ LoadConfigEvmError(env) = NoError
    /\ LoadConfigEvm(env).networkId \in DOMAIN NETWORK_MAP

\* C7 (as stated): for every accepted configuration (every networkId key of
\* NETWORK_MAP) the ethers build and the viem build of an EVM script make
\* the same calls and end the same way, given the same responses.
C7_BuildsAgree ==
    (script \in ProviderScripts /\ AcceptedConfig) =>
        Observed(run["ethers"]) = Observed(run["viem"])

\* C7 (amended): the two builds agree for every networkId key of
\* VIEM_CHAIN_MAP, that is every key of NETWORK_MAP but "130" (Unichain); for
\* "130" the viem createProvider throws before any call is made and the viem
\* build exits with status 1.
C7_BuildsAgreeOnViemChains ==
    (script \in ProviderScripts /\ AcceptedConfig) =>
        IF LoadConfigEvm(env).networkId \in DOMAIN VIEM_CHAIN_MAP
        THEN Observed(run["ethers"]) = Observed(run["viem"])
        ELSE /\ LoadConfigEvm(env).networkId = <<"1","3","0">>
             /\ run["viem"].ops = <<>>
             /\ run["viem"].thrown.kind \in {"none", "UnsupportedNetwork"}
             /\ Finished(run["viem"]) => run["viem"].exitCode = 1

\* Both builds on Sonic (146), finished after approving, submitting and
\* polling.
C7_Witness ==
    /\ script \in ProviderScripts /\ AcceptedConfig
    /\ env.NETWORK_ID = <<"1","4","6">>
    /\ \A b \in Builds :
          /\ Finished(run[b]) /\ run[b].polls > 1
          /\ \E i \in DOMAIN run[b].ops : run[b].ops[i].op = "approveToken"

\* C8: in every script, the quick starts included, a run in which main()
\* threw and the entry point's catch logged the error exits with a non-zero
\* status.
C8_MainErrorExitsNonZero ==
    \A b \in Builds : (Finished(run[b]) /\ run[b].logged) => run[b].exitCode # 0

InLoop(r) == r.pc \in {"pollCheck", "getOrderStatus", "sleep"}

\* C9: a polling script that has entered its status loop eventually leaves
\* it, given that every status call and every sleep returns: at every point
\* of a run the script is outside the loop or will be (InLoop ~> ~InLoop,
\* written as always-eventually).
C9_PollingTerminates ==
    \A b \in Builds : []<>(~InLoop(run[b]))

\* A run that polled for the whole timeout and left the loop by its
\* condition: 100 status calls, 3 s apart, in 300 s.
C9_Witness ==
    /\ script \in PollScripts
    /\ \E b \in Builds :
          /\ ~InLoop(run[b]) /\ run[b].ending = "timeout"
          /\ run[b].polls = OrderTimeout(script) \div PollInterval(script)

\* C10: in the EVM polling loop an error thrown by sdk.getOrderStatus never
\* ends the loop, the script sleeps and polls again; the loop is left with an
\* error only by the script's own Expired and Cancelled errors and by the
\* timeout.
C10_ApiErrorNeverEndsLoop ==
    script \in EvmPollScripts =>
        \A b \in Builds :
            /\ run[b].lastStatus = "throw" => run[b].pc = "sleep"
            /\ (run[b].polls > 0 /\ run[b].thrown # NoError) =>
                  run[b].thrown.kind \in {"Expired", "Cancelled", "Timeout"}

\* C11: in both WebSocket scripts the completion promise is settled at most
\* once: once settled, no later event and no timer changes its state, what
\* settled it or its rejection; it is resolved only by a fill of the tracked
\* order; and whenever a fill or invalid/cancel event of the tracked order
\* has been handled the timer is cleared.
C11_SettledOnce ==
    [][\A b \in Builds :
          /\ run[b].promise \in {"resolved", "rejected"} =>
                /\ run'[b].promise = run[b].promise
                /\ run'[b].settledBy = run[b].settledBy
                /\ run'[b].rejectedWith = run[b].rejectedWith
          /\ run'[b].promise = "resolved" => run'[b].settledBy = "filled"
          /\ run'[b].promise = "rejected" => run'[b].settledBy \in {"invalid", "timer"}
          /\ run'[b].orderCompleted => ~run'[b].timerArmed
      ]_vars

\* The timer rejected the promise, and a fill of the tracked order was handled
\* afterwards: the promise is still rejected with the timeout.
C11_Witness ==
    /\ script \in WsScripts
    /\ \E b \in Builds :
          /\ run[b].promise = "rejected" /\ run[b].settledBy = "timer"
          /\ run[b].rejectedWith.kind = "Timeout"
          /\ run[b].orderCompleted /\ run[b].seen = "filled"

AllowanceScripts == {"erc20", "permit2", "evm_ws"}

LowAllowance(r, s) == r.allowance # -1 /\ r.allowance < Amount(s)

OrderOps == {"getQuote", "createOrder", "submitOrder"}

\* The call at position i of the run was made after an approval had been
\* sent and waitForTransaction had returned for it.
ApprovedBefore(r, i) ==
    \E j, k \in DOMAIN r.ops :
        /\ j < k /\ k < i
        /\ r.ops[j].op = "approveToken"
        /\ r.ops[k].op = "waitForTransaction"

\* C12 (as stated): in the ERC-20, Permit2 and EVM WebSocket scripts, once
\* the allowance read is below the swap amount the script has thrown an
\* insufficient-allowance error and never requests a quote or submits an
\* order.
C12_LowAllowanceThrows ==
    script \in AllowanceScripts =>
        \A b \in Builds :
            LowAllowance(run[b], script) =>
                /\ run[b].thrown.kind = "InsufficientAllowance"
                /\ \A i \in DOMAIN run[b].ops : run[b].ops[i].op \notin OrderOps

\* C12 (amended): a low allowance is not an error in these scripts. When the
\* allowance read is below the swap amount the script never throws an
\* insufficient-allowance error; it sends an approval and waits for the
\* approval transaction, and only then requests the quote and goes on to
\* create and submit the order.
C12_LowAllowanceApproves ==
    script \in AllowanceScripts =>
        \A b \in Builds :
            LowAllowance(run[b], script) =>
                /\ run[b].thrown.kind # "InsufficientAllowance"
                /\ run[b].pc = "getQuote" =>
                       ApprovedBefore(run[b], Len(run[b].ops) + 1)
                /\ \A i \in DOMAIN run[b].ops :
                       run[b].ops[i].op \in OrderOps => ApprovedBefore(run[b], i)

C12_Witness ==
    /\ script \in AllowanceScripts
    /\ \E b \in Builds :
          /\ LowAllowance(run[b], script)
          /\ \E i \in DOMAIN run[b].ops :
                /\ run[b].ops[i].op = "submitOrder"
                /\ ApprovedBefore(run[b], i)

FullEvmScripts == {"erc20", "permit2", "native", "evm_ws"}

SubmissionOps == {"createOrder", "submitOrder", "submitNativeOrder"}

\* C13: in the four full EVM scripts, once getQuote has answered with a quote
\* that has no preset under recommendedPreset, the script has thrown its
\* 'Preset ... not found' error, and the run never calls createOrder,
\* submitOrder or submitNativeOrder.
C13_MissingPresetStops ==
    script \in FullEvmScripts =>
        \A b \in Builds :
            run[b].quote = "nopreset" =>
                /\ run[b].thrown.kind = "PresetNotFound"
                /\ \A i \in DOMAIN run[b].ops : run[b].ops[i].op \notin SubmissionOps

C13_Witness ==
    /\ script \in FullEvmScripts
    /\ \E b \in Builds :
          /\ run[b].quote = "nopreset"
          /\ run[b].ops[Len(run[b].ops)].op = "getQuote"
          /\ Finished(run[b]) /\ run[b].exitCode = 1

CancelSent(r) ==
    \E i \in DOMAIN r.ops : r.ops[i] = Op("sendRawTransaction", "cancel", "")

CancelConfirmAsked(r) ==
    \E i \in DOMAIN r.ops : r.ops[i] = Op("confirmTransaction", "cancel", "")

\* The resolver filled the order before the cancel transaction was processed:
\* an order whose cancellation was confirmed first is not filled any more.
FilledFirst(r) == r.feed = "filled"

\* createOrderForDemo returned: the run stands in, or went through, the
\* verification loop.
PastCreation(r) == r.pc = "verify" \/ r.i > 0 \/ r.polls > 0

\* C14 (as stated): in the Solana cancel-order script the resolver's fill takes
\* precedence under every interleaving with the verification loop and the
\* cancellation: once the order is filled before the cancel transaction is
\* processed, the script never reaches 'Order cancelled successfully' or the
\* steps after it, and a finished run ended either by the early 'not active'
\* return or by an error thrown from the cancellation, with exit status 1.
C14_FillBeatsCancel ==
    script = "sol_cancel" =>
        \A b \in Builds :
            FilledFirst(run[b]) =>
                /\ run[b].ending # "cancelled"
                /\ run[b].pc \notin {"finalStatus", "finalBalance"}
                /\ (Finished(run[b]) /\ PastCreation(run[b])) =>
                      \/ run[b].ending = "inactive"
                      \/ /\ \/ run[b].thrown.kind = "CancelFailed"
                            \/ run[b].thrown = NetworkFailure
                         /\ run[b].exitCode = 1

\* C14 (amended): in the Solana cancel-order script the answer of the cluster
\* decides the race, the script checks nothing of the fill itself.  Once the
\* order is filled before the cancel transaction is processed, the script
\* reaches 'Order cancelled successfully' and the steps after it only if
\* confirmTransaction answered the cancel transaction without an error; when
\* the answer carries an error the script throws 'Cancel failed' and never
\* prints the success line; and a finished run ended by the early 'not
\* active' return, by an error thrown from the cancellation with exit
\* status 1, or past a confirmation without error.
C14_ClusterDecidesRace ==
    script = "sol_cancel" =>
        \A b \in Builds :
            FilledFirst(run[b]) =>
                /\ (run[b].ending = "cancelled"
                      \/ run[b].pc \in {"finalStatus", "finalBalance"}) =>
                      run[b].cancelConfirm = "ok"
                /\ run[b].cancelConfirm = "err" =>
                      /\ run[b].thrown.kind = "CancelFailed"
                      /\ run[b].ending # "cancelled"
                /\ (Finished(run[b]) /\ PastCreation(run[b])) =>
                      \/ run[b].ending = "inactive"
                      \/ /\ \/ run[b].thrown.kind = "CancelFailed"
                            \/ run[b].thrown = NetworkFailure
                         /\ run[b].exitCode = 1
                      \/ /\ run[b].cancelConfirm = "ok"
                         /\ run[b].ending = "cancelled"
                         /\ run[b].thrown = NoError
                         /\ run[b].exitCode = 0

\* The order was filled during verification, the cancel transaction was sent
\* all the same, its confirmation carried an error and the run exited 1.
C14_Witness ==
    /\ script = "sol_cancel"
    /\ \E b \in Builds :
          /\ FilledFirst(run[b])
          /\ CancelSent(run[b])
          /\ run[b].cancelConfirm = "err"
          /\ Finished(run[b])
          /\ run[b].thrown.kind = "CancelFailed"
          /\ run[b].exitCode = 1

\* C15: in both WebSocket scripts, a run that created the WebSocketApi and
\* then ended, however it ended, called ws.close() before the process exited.
C15_SocketClosedOnExit ==
    script \in WsScripts =>
        \A b \in Builds :
            (Finished(run[b]) /\ "ws" \in run[b].made) => run[b].wsClosed

EndingStatuses == {"Filled", "Expired", "Cancelled"}

WaitingStatuses == OrderStatuses \ EndingStatuses

\* C16: in the EVM polling loop a status call answered with Pending,
\* PartiallyFilled, FalsePredicate, NotEnoughBalanceOrAllowance, WrongPermit
\* or InvalidSignature sends the script to its sleep, the run not ended; a
\* run that left the loop on a returned status saw Filled (and returned) or
\* Expired or Cancelled (and threw); and a run that left it otherwise, no
\* status call having thrown, left it by the timeout, the loop condition
\* false.
C16_OnlyThreeStatusesEndPolling ==
    script \in EvmPollScripts =>
        \A b \in Builds :
            /\ run[b].lastStatus \in WaitingStatuses =>
                  /\ run[b].pc = "sleep"
                  /\ run[b].ending = "none"
            /\ run[b].ending = "filled" =>
                  /\ run[b].lastStatus = "Filled"
                  /\ run[b].thrown = NoError
            /\ run[b].ending = "terminal" =>
                  /\ run[b].lastStatus \in {"Expired", "Cancelled"}
                  /\ run[b].thrown = SwitchThrows(run[b].lastStatus)
            /\ (run[b].polls > 0 /\ ~InLoop(run[b]) /\ run[b].lastStatus \notin EndingStatuses
                   /\ run[b].lastStatus # "throw") =>
                  /\ run[b].ending = "timeout"
                  /\ ~WhileContinues(script, run[b].elapsed)

C16_Witness ==
    /\ script \in EvmPollScripts
    /\ \E b \in Builds :
          /\ run[b].polls = 3
          /\ run[b].lastStatus = "InvalidSignature"
          /\ run[b].pc = "sleep"

\* C17: in each polling script one sleep of pollInterval lies between any two
\* consecutive getOrderStatus calls, after a returned status and after a
\* failed call alike; no status call starts once the time since polling began
\* has reached orderTimeout; a run makes at most orderTimeout / pollInterval
\* status calls, 100 in the EVM scripts and 150 in the Solana script.
C17_OneSleepPerQuery ==
    script \in PollScripts =>
        \A b \in Builds :
            /\ run[b].pc \in {"pollCheck", "getOrderStatus"} => run[b].sleeps = run[b].polls
            /\ run[b].pc = "sleep" => run[b].sleeps = run[b].polls - 1
            /\ run[b].elapsed >= run[b].sleeps * PollInterval(script)
            /\ run[b].pc = "getOrderStatus" => run[b].elapsed < OrderTimeout(script)
            /\ run[b].polls > 0 => run[b].pollAt < OrderTimeout(script)
            /\ run[b].polls <= OrderTimeout(script) \div PollInterval(script)
            /\ script \in EvmPollScripts => run[b].polls <= 100
            /\ script = "sol_poll" => run[b].polls <= 150

C17_Witness ==
    /\ script = "sol_poll"
    /\ \E b \in Builds :
          /\ run[b].polls = 150
          /\ run[b].sleeps = 150
          /\ run[b].ending = "timeout"

ApprovalScripts == {"erc20", "permit2"}

Approvals(r) == {i \in DOMAIN r.ops : r.ops[i].op = "approveToken"}

\* The allowance read was at least the swap amount, or an approval was sent
\* and waited for before position i.
ClearedBefore(r, s, i) ==
    \/ r.allowance # -1 /\ r.allowance >= Amount(s)
    \/ ApprovedBefore(r, i)

\* C18: in the ERC-20 and Permit2 scripts getQuote, createOrder and
\* submitOrder are reached only once the allowance read was at least the swap
\* amount or an approval was sent and waitForTransaction returned; a run
\* sends at most one approval; the ERC-20 script approves the swap amount to
\* AGGREGATION_ROUTER_V6, the Permit2 script approves MAX_UINT256 to PERMIT2
\* and never the router.
C18_ApprovalBeforeOrder ==
    script \in ApprovalScripts =>
        \A b \in Builds :
            /\ run[b].pc \in {"getQuote", "createOrder", "submitOrder"} =>
                  ClearedBefore(run[b], script, Len(run[b].ops) + 1)
            /\ \A i \in DOMAIN run[b].ops :
                  run[b].ops[i].op \in OrderOps => ClearedBefore(run[b], script, i)
            /\ Cardinality(Approvals(run[b])) <= 1
            /\ \A i \in Approvals(run[b]) :
                  IF script = "erc20"
                  THEN run[b].ops[i] = Op("approveToken", "AGGREGATION_ROUTER_V6", "amount")
                  ELSE run[b].ops[i] = Op("approveToken", "PERMIT2", "MAX_UINT256")

C18_Witness ==
    /\ script = "permit2"
    /\ \E b \in Builds :
          \E i, j \in DOMAIN run[b].ops :
              /\ i < j
              /\ run[b].ops[i] = Op("approveToken", "PERMIT2", "MAX_UINT256")
              /\ run[b].ops[j].op = "submitOrder"

\* The escrow transaction was sent and txRes.wait() returned for it: the two
\* calls are the last the run made before the loop.
EscrowConfirmed(r) ==
    /\ Len(r.ops) >= 2
    /\ r.ops[Len(r.ops) - 1].op = "wallet.sendTransaction"
    /\ r.ops[Len(r.ops)].op = "txRes.wait"
    /\ r.thrown # NetworkFailure

Polled(r) == InLoop(r) \/ r.polls > 0

\* C19: the native-ETH script never calls approveToken; it sends the escrow
\* transaction only after submitNativeOrder returned; the polling loop and
\* its clock start only after the escrow transaction was confirmed, so a run
\* whose escrow transaction was not sent or not confirmed never calls
\* getOrderStatus.
C19_EscrowBeforePolling ==
    script = "native" =>
        \A b \in Builds :
            /\ \A i \in DOMAIN run[b].ops : run[b].ops[i].op # "approveToken"
            /\ \A i \in DOMAIN run[b].ops :
                  run[b].ops[i].op = "wallet.sendTransaction" =>
                      /\ i > 1
                      /\ run[b].ops[i - 1].op = "submitNativeOrder"
            /\ run[b].pc = "sendEscrow" =>
                  run[b].ops[Len(run[b].ops)].op = "submitNativeOrder"
            /\ Polled(run[b]) => EscrowConfirmed(run[b])
            /\ ~Polled(run[b]) => run[b].elapsed = 0 /\ run[b].pollAt = -1

C19_Witness ==
    /\ script = "native"
    /\ \E b \in Builds :
          /\ EscrowConfirmed(run[b])
          /\ run[b].polls = 2
          /\ run[b].pc = "sleep"

\* C20: in the EVM WebSocket script no terminal event of the submitted order
\* is lost: the first order_filled or order_invalid event carrying the
\* submitted order's hash, delivered while the completion promise is pending
\* (sdk.submitOrder returned or not), settles the promise: resolved on a
\* fill, rejected with the invalid/cancel error otherwise.
C20_NoTerminalEventLost ==
    [][script = "evm_ws" =>
          \A b \in Builds :
              (run[b].seen = "none" /\ run'[b].seen # "none" /\ run[b].promise = "pending") =>
                  /\ run'[b].seen = "filled" =>
                        run'[b].promise = "resolved" /\ run'[b].settledBy = "filled"
                  /\ run'[b].seen = "invalid" =>
                        run'[b].promise = "rejected" /\ run'[b].settledBy = "invalid"
      ]_vars

\* C21: in both WebSocket scripts the timeout runs from the submission: a
\* run whose wait for events (entered once submitOrder returned, or once the
\* escrow transaction was confirmed) was ended by the timer had waited the
\* whole configured timeout since it began, however long the steps before
\* it took.
C21_TimeoutFromSubmission ==
    script \in WsScripts =>
        \A b \in Builds :
            (run[b].settledBy = "timer" /\ run[b].submittedAt # -1) =>
                run[b].elapsed - run[b].submittedAt >= OrderTimeout(script)

\* C22: in the EVM WebSocket script the WebSocketApi listens on the network
\* the order is submitted on: for every supported config.networkId, the
\* network given to WebSocketApi is NETWORK_MAP[config.networkId], the one
\* createFusionSDK uses.
C22_SocketOnSdkNetwork ==
    script = "evm_ws" =>
        \A b \in Builds :
            "ws" \in run[b].made =>
                /\ run[b].wsNetwork = run[b].sdkNetwork
                /\ run[b].wsNetwork = NETWORK_MAP[run[b].config.networkId]

\* What the completion of the order hangs on.
Settlement(r) ==
    [promise |-> r.promise, settledBy |-> r.settledBy, rejectedWith |-> r.rejectedWith,
     timerArmed |-> r.timerArmed, orderCompleted |-> r.orderCompleted]

\* C23: in both WebSocket scripts, whatever state the script is in while it
\* listens, an event whose orderHash is not the tracked hash (the tracked
\* hash still null included) leaves the state as it is under every callback,
\* and the log-only callbacks (order_created, order_filled_partially,
\* balance/allowance change) leave promise, timer and orderCompleted as they
\* are for the tracked order too.
C23_UntrackedEventsChangeNothing ==
    script \in WsScripts =>
        \A b \in Builds :
            Listening(run[b]) =>
                /\ \A h \in Hashes :
                      h # run[b].orderHash =>
                          /\ OnOrderFilled(run[b], h) = run[b]
                          /\ OnOrderInvalid(run[b], script, h, nodeMode) = run[b]
                          /\ OnOrderInfo(run[b], h) = run[b]
                /\ \A h \in Hashes :
                      Settlement(OnOrderInfo(run[b], h)) = Settlement(run[b])
                /\ (run[b].seen # "none" /\ run[b].orderHash = "null") =>
                      /\ run[b].settledBy \notin TerminalEvents
                      /\ ~run[b].orderCompleted

C23_Witness ==
    /\ script \in WsScripts
    /\ \E b \in Builds :
          /\ Listening(run[b])
          /\ run[b].orderHash = "null"
          /\ run[b].seen = "invalid"
          /\ run[b].promise = "pending"

\* A status query of the verification loop answered with an order that is
\* not active.
ReportedInactive(r) ==
    /\ r.polls > 0
    /\ r.lastStatus \in SolStatuses /\ ~IsActive(r.lastStatus)
    /\ ~CancelConfirmAsked(r)

\* C24: in the Solana cancel-order script a verification attempt whose
\* status query is answered with an order that is not active ends the run:
\* the script returns at once, builds and sends no cancel transaction, and
\* the process exits with status 0; a run that sent a cancel transaction saw
\* no such answer.
C24_InactiveAnswerEndsRun ==
    script = "sol_cancel" =>
        \A b \in Builds :
            /\ run[b].pc = "verify" =>
                  \A resp \in SolStatuses :
                      ~IsActive(resp) =>
                          LET r1 == AfterVerify(run[b], resp) IN
                          /\ r1.pc = "returned"
                          /\ r1.ending = "inactive"
                          /\ ~CancelSent(r1)
            /\ (run[b].ending = "inactive" /\ Finished(run[b])) => run[b].exitCode = 0
            /\ CancelSent(run[b]) =>
                  /\ run[b].ending # "inactive"
                  /\ ~ReportedInactive(run[b])

\* The run left the verification loop for the cancellation.
PastVerify(r) ==
    \/ r.pc \in {"cancelBlockhash", "sendCancel", "confirmCancel", "finalStatus", "finalBalance"}
    \/ CancelSent(r)

\* C25: in the verification step of the Solana cancel-order script every
\* attempt waits retryDelay and then calls sdk.getOrderStatus: an attempt
\* that ended made its call, the loop makes at most maxRetries (5) calls and
\* at least one before the script goes on, and no cancel transaction is sent
\* before a getOrderStatus call was made.
C25_VerificationQueriesStatus ==
    script = "sol_cancel" =>
        \A b \in Builds :
            /\ run[b].polls <= MaxRetries
            /\ run[b].i <= run[b].polls
            /\ PastVerify(run[b]) => run[b].polls >= 1

CancelSends(r) == {i \in DOMAIN r.ops : r.ops[i] = Op("sendRawTransaction", "cancel", "")}

\* C26: the Solana cancel-order script sends at most one cancel transaction
\* per run; it reaches 'Order cancelled successfully', and exits 0 after a
\* cancel attempt, only if confirmTransaction answered without an error; an
\* answer carrying an error makes it throw 'Cancel failed' and exit 1; and
\* the final getOrderStatus, failed or not, leaves the exit status alone: a
\* confirmed cancellation ends non-zero only by the final balance read.
C26_CancelOutcome ==
    script = "sol_cancel" =>
        \A b \in Builds :
            /\ Cardinality(CancelSends(run[b])) <= 1
            /\ run[b].ending = "cancelled" => run[b].cancelConfirm = "ok"
            /\ (CancelSent(run[b]) /\ Finished(run[b]) /\ run[b].exitCode = 0) =>
                  run[b].cancelConfirm = "ok"
            /\ run[b].cancelConfirm = "err" =>
                  /\ run[b].thrown.kind = "CancelFailed"
                  /\ run[b].ending # "cancelled"
                  /\ Finished(run[b]) => run[b].exitCode = 1
            /\ (run[b].cancelConfirm = "ok" /\ run[b].pc = "finalBalance") =>
                  run[b].thrown = NoError
            /\ (run[b].cancelConfirm = "ok" /\ Finished(run[b])) =>
                  IF run[b].thrown = NoError
                  THEN run[b].exitCode = 0
                  ELSE /\ run[b].ops[Len(run[b].ops)].op = "connection.getBalance"
                       /\ run[b].exitCode = 1

C26_Witness ==
    /\ script = "sol_cancel"
    /\ \E b \in Builds :
          /\ run[b].cancelConfirm = "ok"
          /\ run[b].lastStatus = "throw"
          /\ Finished(run[b])
          /\ run[b].exitCode = 0

\* The status read in this pass of the loop carries an error.
StatusHasErr(st) == st.asked /\ ~st.isNull /\ st.err # "null"

StatusConfirmed(st) ==
    st.asked /\ ~st.isNull /\ st.confirmationStatus \in {"confirmed", "finalized"}

\* C27: confirmTransactionPolling returns only {confirmed: true, slot}, the
\* slot that of a status without err whose confirmationStatus is 'confirmed'
\* or 'finalized'; a status carrying err makes it throw 'Transaction failed'
\* whatever its confirmationStatus; a null status, or one that is neither
\* confirmed nor finalized, sends it to a sleep of pollIntervalMs and then
\* to the next poll; confirmed: false is never returned.
C27_ConfirmPollingResult ==
    LET st == run.lastStatus IN
    /\ run.pc = "returned" =>
          /\ StatusConfirmed(st) /\ ~StatusHasErr(st)
          /\ run.returned = [confirmed |-> TRUE, slot |-> st.slot]
    /\ run.pc # "returned" => run.returned = NoReturn
    /\ StatusHasErr(st) =>
          /\ run.pc = "threw"
          /\ run.thrown.kind = "TransactionFailed"
    /\ (st.asked /\ ~StatusHasErr(st) /\ ~StatusConfirmed(st)) => run.pc = "sleep"
    /\ run.pc \in {"while", "getSignatureStatuses"} => run.sleeps = run.polls
    /\ run.elapsed >= run.sleeps * run.pollIntervalMs

C27_Witness ==
    /\ run.pc = "returned"
    /\ run.polls = 3
    /\ run.returned = [confirmed |-> TRUE, slot |-> 2]
    /\ run.lastStatus.confirmationStatus = "finalized"

ConfirmDone == run.pc \in {"returned", "threw"}

\* C28: given that every RPC call and every sleep returns and that sleeping
\* takes time, a call of confirmTransactionPolling ends: it returns a
\* confirmation, or throws 'Transaction failed', or throws 'Transaction
\* confirmation timeout' with the elapsed time at or past timeoutMs (or
\* passes on the rejection of an RPC call); no RPC call starts at or past
\* timeoutMs, and with timeoutMs <= 0 it throws the timeout error without a
\* getSignatureStatuses call.
C28_ConfirmPollingTerminates ==
    /\ <>ConfirmDone
    /\ [](run.pc = "threw" =>
             \/ run.thrown.kind \in {"TransactionFailed", "ConfirmTimeout"}
             \/ run.rpcFailed /\ run.thrown = NetworkFailure)
    /\ [](run.thrown.kind = "ConfirmTimeout" => run.elapsed >= run.timeoutMs)
    /\ [](run.polls > 0 => run.pollAt < run.timeoutMs)
    /\ [](run.timeoutMs <= 0 =>
             /\ run.polls = 0
             /\ run.pc \in {"while", "threw"}
             /\ run.pc = "threw" => run.thrown.kind = "ConfirmTimeout")

C28_Witness ==
    /\ run.pc = "threw"
    /\ run.thrown.kind = "ConfirmTimeout"
    /\ run.timeoutMs = DefaultTimeoutMs
    /\ run.pollIntervalMs = DefaultPollIntervalMs
    /\ run.polls = 30

\* C29: the Solana quick start reaches 'Order submitted successfully!' only
\* on a status that is confirmed and carries no error; it makes at most 30
\* getSignatureStatuses calls; and a run whose transaction failed, or was
\* not confirmed within the 30 polls, ends as a failure: an error is thrown
\* and reported, the run does not complete silently.
C29_QuickStartConfirmation ==
    script = "sol_quick" =>
        \A b \in Builds :
            /\ run[b].ending = "confirmed" => run[b].lastStatus = "confirmed"
            /\ run[b].polls <= QuickMaxPolls
            /\ (Finished(run[b]) /\ run[b].lastStatus = "confirmedErr") =>
                  run[b].thrown # NoError /\ run[b].logged
            /\ (Finished(run[b]) /\ run[b].ending = "exhausted") =>
                  run[b].thrown # NoError /\ run[b].logged

====
